---- MODULE Spec2Model ----
(***************************************************************************)
(* Request handling of the FastAPI tutorial application.                   *)
(*                                                                         *)
(* The program is a set of route tables (the application object of         *)
(* src/src/main.py and the routers of src/src/routes/) whose entries       *)
(* declare, in the handler's signature, the parameters the framework must  *)
(* bind before it calls the handler.  One request is served at a time:     *)
(* it is received, routed in declaration order, its parameters are bound   *)
(* and validated against the declarations, and then either the handler     *)
(* runs or the request is rejected.                                        *)
(*                                                                         *)
(* Texts are TLA+ strings; a path is the sequence of its segments after    *)
(* the leading "/", so "/items/" is <<"items", "">> and "/" is <<"">>.     *)
(* A query string is the sequence of its <<key, value>> pairs.  Values     *)
(* that reach a handler or a response are tagged with their Python type.   *)
(* Floats are modelled as integers in a fixed unit (tenths).               *)
(***************************************************************************)
EXTENDS Integers, Sequences, FiniteSets, TLC

VARIABLES pc, app, request, routed, endpoint, args, response, fake_items_db

vars == <<pc, app, request, routed, endpoint, args, response, fake_items_db>>

-----------------------------------------------------------------------------
(* Bounds of the explored inputs *)

\* integers sent as skip / limit range over -MaxInt .. MaxInt
MaxInt == 4
\* supplied strings of lengths 0 .. MaxShortLen around min_length
MaxShortLen == 4
\* supplied strings of lengths max_length - 1 .. max_length + MaxOverLen
MaxOverLen == 2

-----------------------------------------------------------------------------
(* Tagged values *)

NoneV == [t |-> "none"]
StrV(s) == [t |-> "str", v |-> s]
IntV(n) == [t |-> "int", v |-> n]
FloatV(n) == [t |-> "float", v |-> n]
BoolV(b) == [t |-> "bool", v |-> b]
ListV(q) == [t |-> "list", v |-> q]

\* Python truthiness of a bound value: None, "", 0, 0.0, False and [] are falsy
Truthy(x) ==
    CASE x.t = "none" -> FALSE
      [] x.t = "str" -> x.v # ""
      [] x.t = "int" -> x.v # 0
      [] x.t = "float" -> x.v # 0
      [] x.t = "bool" -> x.v
      [] x.t = "list" -> x.v # <<>>
      [] OTHER -> TRUE

-----------------------------------------------------------------------------
(* Texts *)

RECURSIVE Rep(_, _)
Rep(c, n) == IF n = 0 THEN "" ELSE c \o Rep(c, n - 1)

Digit(d) ==
    CASE d = 0 -> "0" [] d = 1 -> "1" [] d = 2 -> "2" [] d = 3 -> "3"
      [] d = 4 -> "4" [] d = 5 -> "5" [] d = 6 -> "6" [] d = 7 -> "7"
      [] d = 8 -> "8" [] d = 9 -> "9"

RECURSIVE Dec(_)
\* decimal text of an integer
Dec(n) ==
    IF n < 0 THEN "-" \o Dec(0 - n)
    ELSE IF n < 10 THEN Digit(n)
    ELSE Dec(n \div 10) \o Digit(n % 10)

RECURSIVE Join(_)
\* the segments of a path remainder joined with "/"
Join(segs) ==
    IF Len(segs) = 1 THEN segs[1] ELSE segs[1] \o "/" \o Join(Tail(segs))

-----------------------------------------------------------------------------
(* Program data *)

\* fake_items_db = [{"item_name": "Foo"}, {"item_name": "Bar"}, {"item_name": "Thirt"}]
FakeItemsDb ==
    << [item_name |-> StrV("Foo")], [item_name |-> StrV("Bar")], [item_name |-> StrV("Thirt")] >>

\* class ModelName(str, Enum)
ModelName == {"alexnet", "resnet", "lenet"}

\* class Item(BaseModel): name: str, description: str | None = None,
\* price: float, tax: float | None = None
ItemFields ==
    << [name |-> "name", type |-> "str", required |-> TRUE],
       [name |-> "description", type |-> "str", required |-> FALSE],
       [name |-> "price", type |-> "float", required |-> TRUE],
       [name |-> "tax", type |-> "float", required |-> FALSE] >>

-----------------------------------------------------------------------------
(* Route declarations *)

\* segments of a path template: a literal, "{name}" and "{name:path}"
Lit(s) == [kind |-> "lit", text |-> s]
Var(n) == [kind |-> "var", name |-> n]
Rest(n) == [kind |-> "rest", name |-> n]

\* defaults that are not values: no default at all, and the literal "..."
Undefined == [t |-> "undefined"]
Ellipsis == [t |-> "ellipsis"]
\* from pydantic import Required
Required == Ellipsis

\* a declared parameter of a handler's signature
Arg(name, src, type, default) ==
    [name |-> name, alias |-> name, src |-> src, type |-> type, default |-> default,
     min_length |-> {}, max_length |-> {}, regex |-> {}]

\* a parameter named in the path template
PathArg(name, type) == Arg(name, "path", type, Undefined)
\* "name: type", "name: type = default" and "name: type = Query(default=default)"
QueryArg(name, type, default) == Arg(name, "query", type, default)
\* "item: Item"
BodyArg(name) == Arg(name, "body", "Item", Undefined)

\* mutant: only the literal "..." marks a parameter required
IsRequired_OnlyEllipsis(p) == p.default.t = "ellipsis"
\* mutant: only a missing default marks a parameter required
IsRequired_OnlyUndefined(p) == p.default.t = "undefined"

\* a parameter is required unless its declaration gives a default value
IsRequired(p) == p.default.t \in {"undefined", "ellipsis"}

\* Query(..., min_length=lo, max_length=hi, regex=rx, alias=al); an unset
\* constraint is the empty set, a regex "^literal$" is given by its literal
Constrained(a, lo, hi, rx) ==
    [a EXCEPT !.min_length = lo, !.max_length = hi, !.regex = rx]
Aliased(a, al) == [a EXCEPT !.alias = al]

Route(method, template, name, params) ==
    [method |-> method, template |-> template, endpoint |-> name, params |-> params]

\* app = FastAPI() and its @app.<method>(...) declarations, in order
MainRoutes ==
    << Route("POST", <<Lit("items"), Lit("")>>, "create_item", <<BodyArg("item")>>),
       Route("PUT", <<Lit("items-request-body-path-params"), Var("item_id")>>,
             "create_item_request_body_path_params",
             <<PathArg("item_id", "int"), BodyArg("item")>>),
       Route("PUT", <<Lit("items-request-body-path-query-params"), Var("item_id")>>,
             "create_item_request_body_path_query_params",
             <<PathArg("item_id", "int"), BodyArg("item"), QueryArg("q", "str", NoneV)>>),
       Route("GET", <<Lit("")>>, "root", <<>>),
       Route("GET", <<Lit("items"), Lit("")>>, "read_dic_item",
             <<QueryArg("skip", "int", IntV(0)), QueryArg("limit", "int", IntV(10))>>),
       Route("GET", <<Lit("items"), Var("item_id")>>, "read_item",
             <<PathArg("item_id", "int")>>),
       Route("GET", <<Lit("items-optional-param"), Var("item_id")>>,
             "read_item_optional_param",
             <<PathArg("item_id", "str"), QueryArg("q", "str", NoneV)>>),
       Route("GET", <<Lit("items-required-query-param"), Var("item_id")>>,
             "read_item_required_query_param",
             <<PathArg("item_id", "str"), QueryArg("needy", "str", Undefined)>>),
       Route("GET", <<Lit("items-optional-query-and-bool-param"), Var("item_id")>>,
             "read_item_optional_query_and_bool_param",
             <<PathArg("item_id", "str"), QueryArg("q", "str", NoneV),
               QueryArg("short", "bool", BoolV(FALSE))>>),
       Route("GET", <<Lit("items-required-and-optional-params"), Var("item_id")>>,
             "read_item_required_and_bool_param",
             <<PathArg("item_id", "str"), QueryArg("needy", "str", Undefined),
               QueryArg("skip", "int", IntV(0)), QueryArg("limit", "int", NoneV)>>),
       Route("GET", <<Lit("users"), Lit("me")>>, "read_user_me", <<>>),
       Route("GET", <<Lit("users"), Var("user_id")>>, "read_user",
             <<PathArg("user_id", "str")>>),
       Route("GET", <<Lit("users"), Var("user_id"), Lit("items"), Var("item_id")>>,
             "read_user_item_multiple_path_and_query_params",
             <<PathArg("user_id", "int"), PathArg("item_id", "str"),
               QueryArg("q", "str", NoneV), QueryArg("short", "bool", BoolV(FALSE))>>),
       Route("GET", <<Lit("models"), Var("model_name")>>, "get_model",
             <<PathArg("model_name", "ModelName")>>),
       Route("GET", <<Lit("files"), Rest("file_path")>>, "read_file",
             <<PathArg("file_path", "str")>>) >>

\* routes/first_steps.py: router = APIRouter()
FirstStepsRoutes ==
    << Route("GET", <<Lit("")>>, "root", <<>>) >>

\* routes/path_params.py: router = APIRouter()
PathParamsRoutes ==
    << Route("GET", <<Lit("items"), Var("item_id")>>, "read_item",
             <<PathArg("item_id", "int")>>),
       Route("GET", <<Lit("users"), Lit("me")>>, "read_user_me", <<>>),
       Route("GET", <<Lit("users"), Var("user_id")>>, "read_user",
             <<PathArg("user_id", "str")>>),
       Route("GET", <<Lit("models"), Var("model_name")>>, "get_model",
             <<PathArg("model_name", "ModelName")>>),
       Route("GET", <<Lit("files"), Rest("file_path")>>, "read_file",
             <<PathArg("file_path", "str")>>) >>

\* routes/query_params.py: router = APIRouter()
QueryParamsRoutes ==
    << Route("GET", <<Lit("items"), Lit("")>>, "read_dic_item",
             <<QueryArg("skip", "int", IntV(0)), QueryArg("limit", "int", IntV(10))>>),
       Route("GET", <<Lit("items-optional-param"), Var("item_id")>>,
             "read_item_optional_param",
             <<PathArg("item_id", "str"), QueryArg("q", "str", NoneV)>>),
       Route("GET", <<Lit("items-required-query-param"), Var("item_id")>>,
             "read_item_required_query_param",
             <<PathArg("item_id", "str"), QueryArg("needy", "str", Undefined)>>),
       Route("GET", <<Lit("items-optional-query-and-bool-param"), Var("item_id")>>,
             "read_item_optional_query_and_bool_param",
             <<PathArg("item_id", "str"), QueryArg("q", "str", NoneV),
               QueryArg("short", "bool", BoolV(FALSE))>>),
       Route("GET", <<Lit("items-required-and-optional-params"), Var("item_id")>>,
             "read_item_required_and_bool_param",
             <<PathArg("item_id", "str"), QueryArg("needy", "str", Undefined),
               QueryArg("skip", "int", IntV(0)), QueryArg("limit", "int", NoneV)>>),
       Route("GET", <<Lit("users"), Var("user_id"), Lit("items"), Var("item_id")>>,
             "read_user_item_multiple_path_and_query_params",
             <<PathArg("user_id", "int"), PathArg("item_id", "str"),
               QueryArg("q", "str", NoneV), QueryArg("short", "bool", BoolV(FALSE))>>) >>

\* routes/body.py: router = APIRouter()
BodyRoutes ==
    << Route("POST", <<Lit("items"), Lit("")>>, "create_item", <<BodyArg("item")>>),
       Route("PUT", <<Lit("items-request-path-body-params"), Var("item_id")>>,
             "create_item_request_path_body_params",
             <<PathArg("item_id", "int"), BodyArg("item")>>),
       Route("PUT", <<Lit("items-request-body-path-query-params"), Var("item_id")>>,
             "create_item_request_body_path_query_params",
             <<PathArg("item_id", "int"), BodyArg("item"), QueryArg("q", "str", NoneV)>>) >>

\* Query(..., min_length=3), Query(..., max_length=50)
MinLength == 3
MaxLength == 50
\* the regex of Query(..., regex="^fixedquery$")
FixedQuery == {"fixedquery"}

\* routes/query_params_str_validations.py: router = APIRouter()
StrValidationsRoutes ==
    << Route("GET", <<Lit("items-with-query-params-str-validation"), Lit("")>>,
             "read_items_with_query_params_str_validation",
             <<QueryArg("q", "str", NoneV)>>),
       Route("GET", <<Lit("items-with-query-params-str-max-length-validation"), Lit("")>>,
             "read_items_with_query_params_str_max_length_validation",
             <<Constrained(QueryArg("q", "str", NoneV), {}, {MaxLength}, {})>>),
       Route("GET", <<Lit("items-with-query-params-str-max-min-length-validation"), Lit("")>>,
             "read_items_with_query_params_str_max_mix_length_validation",
             <<Constrained(QueryArg("q", "str", NoneV), {MinLength}, {MaxLength}, {})>>),
       Route("GET",
             <<Lit("items-with-query-params-str-max-min-length-and-regex-validation"), Lit("")>>,
             "read_items_with_query_params_str_max_mix_length_and_regex_expression_validation",
             <<Constrained(QueryArg("q", "str", NoneV), {MinLength}, {MaxLength}, FixedQuery)>>),
       Route("GET", <<Lit("items-with-query-params-default-value"), Lit("")>>,
             "read_items_with_default_query_params_value",
             <<Constrained(QueryArg("q", "str", StrV("defaultquery")), {MinLength}, {}, {})>>),
       Route("GET", <<Lit("items-with-query-params-required-value"), Lit("")>>,
             "read_items_with_required_query_value",
             <<Constrained(QueryArg("q", "str", Undefined), {MinLength}, {}, {})>>),
       Route("GET", <<Lit("items-with-query-params-required-value-with-ellipsis"), Lit("")>>,
             "read_items_with_required_query_value_with_ellipsis",
             <<Constrained(QueryArg("q", "str", Ellipsis), {MinLength}, {}, {})>>),
       Route("GET", <<Lit("items-with-query-params-required-value-with-none"), Lit("")>>,
             "read_items_with_required_query_value_with_none",
             <<Constrained(QueryArg("q", "str", Ellipsis), {MinLength}, {}, {})>>),
       Route("GET", <<Lit("items-with-query-params-required-value-with-pydantic"), Lit("")>>,
             "read_items_with_required_query_value_with_pydantic",
             <<Constrained(QueryArg("q", "str", Required), {MinLength}, {}, {})>>),
       Route("GET", <<Lit("items-query-params-with-multiple-values"), Lit("")>>,
             "read_items_query_value_with_multiple_values",
             <<QueryArg("q", "list", NoneV)>>),
       Route("GET", <<Lit("items-query-params-with-multiple-default-values"), Lit("")>>,
             "read_items_query_value_with_multiple_default_values",
             <<QueryArg("q", "list", ListV(<<"foo", "bar">>))>>),
       Route("GET",
             <<Lit("items-with-query-params-required-value-with-information-metadata-params"),
               Lit("")>>,
             "read_items_with_required_query_value_with_information_metadata_params",
             <<Constrained(QueryArg("q", "str", NoneV), {MinLength}, {}, {})>>),
       Route("GET", <<Lit("items-with-alias-query-params"), Lit("")>>,
             "read_items_with_alias_query_params",
             <<Aliased(QueryArg("q", "str", NoneV), "item-query")>>),
       Route("GET", <<Lit("items-with-deprecating-query-params"), Lit("")>>,
             "read_items_with_deprecating_query_params",
             <<Aliased(Constrained(QueryArg("q", "str", NoneV), {MinLength}, {MaxLength}, FixedQuery),
                       "item-query")>>),
       Route("GET", <<Lit("items-with-query-params-excluded-from-open-api"), Lit("")>>,
             "read_items_with_query_params_excluded_from_open_api",
             <<QueryArg("hidden_query", "str", NoneV)>>) >>

Apps ==
    {"main", "first_steps", "path_params", "query_params", "body",
     "query_params_str_validations"}

\* the route table a request to application or router a is matched against
Routes(a) ==
    CASE a = "main" -> MainRoutes
      [] a = "first_steps" -> FirstStepsRoutes
      [] a = "path_params" -> PathParamsRoutes
      [] a = "query_params" -> QueryParamsRoutes
      [] a = "body" -> BodyRoutes
      [] a = "query_params_str_validations" -> StrValidationsRoutes

-----------------------------------------------------------------------------
(* Routing: routes are tried in declaration order *)

NoMatch == [ok |-> FALSE, params |-> <<>>]

RECURSIVE MatchPath(_, _)

\* mutant: "{name:path}" matches one segment, like "{name}"
MatchPath_RestIsOneSegment(template, path) ==
    IF template = <<>> THEN [ok |-> path = <<>>, params |-> <<>>]
    ELSE LET h == Head(template) IN
      IF path = <<>> THEN NoMatch
      ELSE IF h.kind = "lit"
      THEN IF Head(path) = h.text THEN MatchPath(Tail(template), Tail(path)) ELSE NoMatch
      ELSE IF Head(path) = "" THEN NoMatch
      ELSE LET r == MatchPath(Tail(template), Tail(path)) IN
           IF r.ok THEN [ok |-> TRUE, params |-> (h.name :> Head(path)) @@ r.params]
           ELSE NoMatch

\* the template's path regex applied to the whole path: a literal matches
\* itself, "{name}" one non-empty segment, "{name:path}" all that remains
MatchPath(template, path) ==
    IF template = <<>> THEN [ok |-> path = <<>>, params |-> <<>>]
    ELSE LET h == Head(template) IN
      IF h.kind = "rest"
      THEN IF path = <<>> THEN NoMatch
           ELSE [ok |-> TRUE, params |-> (h.name :> Join(path))]
      ELSE IF path = <<>> THEN NoMatch
      ELSE IF h.kind = "lit"
      THEN IF Head(path) = h.text THEN MatchPath(Tail(template), Tail(path)) ELSE NoMatch
      ELSE IF Head(path) = "" THEN NoMatch
      ELSE LET r == MatchPath(Tail(template), Tail(path)) IN
           IF r.ok THEN [ok |-> TRUE, params |-> (h.name :> Head(path)) @@ r.params]
           ELSE NoMatch

\* a route matches a request fully, or only by its path (another method)
Matches(route, method, path) ==
    IF ~MatchPath(route.template, path).ok THEN "none"
    ELSE IF route.method = method THEN "full"
    ELSE "partial"

Least(S) == CHOOSE i \in S : \A j \in S : i <= j

\* the same path with its trailing slash added or removed
ToggleSlash(path) ==
    IF path[Len(path)] = "" THEN SubSeq(path, 1, Len(path) - 1) ELSE Append(path, "")

\* mutant: the last full match wins
Dispatch_LastMatch(routes, method, path) ==
    LET full == {i \in DOMAIN routes : Matches(routes[i], method, path) = "full"}
    IN  IF full # {} THEN [kind |-> "full", route |-> CHOOSE i \in full : \A j \in full : j <= i]
        ELSE [kind |-> "none", route |-> 0]

\* mutant: a route matched only by its path counts as no match
Dispatch_NoPartial(routes, method, path) ==
    LET full == {i \in DOMAIN routes : Matches(routes[i], method, path) = "full"}
    IN  IF full # {} THEN [kind |-> "full", route |-> Least(full)]
        ELSE [kind |-> "none", route |-> 0]

\* the router's choice for a request: the first full match; else the first
\* partial match; else a redirect when the path with its trailing slash
\* toggled matches some route; else nothing
Dispatch(routes, method, path) ==
    LET full == {i \in DOMAIN routes : Matches(routes[i], method, path) = "full"}
        partial == {i \in DOMAIN routes : Matches(routes[i], method, path) = "partial"}
    IN  IF full # {} THEN [kind |-> "full", route |-> Least(full)]
        ELSE IF partial # {} THEN [kind |-> "partial", route |-> Least(partial)]
        ELSE IF /\ path # <<"">>
                /\ \E i \in DOMAIN routes :
                      Matches(routes[i], method, ToggleSlash(path)) # "none"
        THEN [kind |-> "redirect", route |-> 0]
        ELSE [kind |-> "none", route |-> 0]

-----------------------------------------------------------------------------
(* Binding and validation of the declared parameters *)

Ok(v) == [ok |-> TRUE, v |-> v]
Err(type) == [ok |-> FALSE, type |-> type]

\* the kind of a validation error, by the framework's error type
Kind(type) ==
    CASE type = "value_error.missing" -> "missing"
      [] type = "value_error.any_str.min_length" -> "too_short"
      [] type = "value_error.any_str.max_length" -> "too_long"
      [] type = "value_error.str.regex" -> "pattern_mismatch"
      [] OTHER -> "type_error"

\* the value of the last pair of the query string under a key, None without one
QueryGet(query, key) ==
    LET at == {i \in DOMAIN query : query[i][1] = key}
    IN  IF at = {} THEN NoneV
        ELSE StrV(query[CHOOSE i \in at : \A j \in at : j <= i][2])

\* mutant: only the last pair under the key is kept
QueryGetList_Last(query, key) ==
    LET sel == SelectSeq(query, LAMBDA kv : kv[1] = key)
    IN  IF sel = <<>> THEN <<>> ELSE << sel[Len(sel)][2] >>

\* the values of all pairs of the query string under a key, in order
QueryGetList(query, key) ==
    LET sel == SelectSeq(query, LAMBDA kv : kv[1] = key)
    IN  [i \in 1 .. Len(sel) |-> sel[i][2]]

\* re.match of the pattern "^literal$": "$" matches at the end of the text
\* and also just before a newline that ends it
ReMatch(literal, s) == s = literal \/ s = literal \o "\n"

\* mutant: both length limits are exclusive
ValidateStr_Exclusive(p, s) ==
    IF \E m \in p.min_length : Len(s) <= m THEN Err("value_error.any_str.min_length")
    ELSE IF \E m \in p.max_length : Len(s) >= m THEN Err("value_error.any_str.max_length")
    ELSE IF \E literal \in p.regex : ~ReMatch(literal, s) THEN Err("value_error.str.regex")
    ELSE Ok(StrV(s))

\* a text against the string constraints: lengths first, then the regex;
\* the first failure is the parameter's error
ValidateStr(p, s) ==
    IF \E m \in p.min_length : Len(s) < m THEN Err("value_error.any_str.min_length")
    ELSE IF \E m \in p.max_length : Len(s) > m THEN Err("value_error.any_str.max_length")
    ELSE IF \E literal \in p.regex : ~ReMatch(literal, s) THEN Err("value_error.str.regex")
    ELSE Ok(StrV(s))

\* the texts int() reads as n: the decimal digits, an optional sign, blanks
\* around them
IntTexts(n) ==
    {blanks[1] \o sign \o Dec(n) \o blanks[2] :
        blanks \in {<<"", "">>, <<" ", "">>, <<"", " ">>},
        sign \in IF n >= 0 THEN {"", "+"} ELSE {""}}

\* mutant: a text that is no integer is read as 0
ParseInt_Lenient(s) ==
    LET ns == {n \in (0 - MaxInt) .. MaxInt : s \in IntTexts(n)}
    IN  IF ns = {} THEN Ok(IntV(0)) ELSE Ok(IntV(CHOOSE n \in ns : TRUE))

\* int(s) of a supplied text
ParseInt(s) ==
    LET ns == {n \in (0 - MaxInt) .. MaxInt : s \in IntTexts(n)}
    IN  IF ns = {} THEN Err("type_error.integer") ELSE Ok(IntV(CHOOSE n \in ns : TRUE))

ParseBool(s) ==
    IF s \in {"1", "on", "t", "true", "y", "yes"} THEN Ok(BoolV(TRUE))
    ELSE IF s \in {"0", "off", "f", "false", "n", "no"} THEN Ok(BoolV(FALSE))
    ELSE Err("type_error.bool")

\* mutant: any text is taken as a member
ParseEnum_Any(s) == Ok(StrV(s))

\* exact, case-sensitive membership in the enumeration
ParseEnum(s) == IF s \in ModelName THEN Ok(StrV(s)) ELSE Err("type_error.enum")

\* a supplied text coerced to the declared type and checked
Coerce(p, s) ==
    CASE p.type = "str" -> ValidateStr(p, s)
      [] p.type = "int" -> ParseInt(s)
      [] p.type = "bool" -> ParseBool(s)
      [] p.type = "ModelName" -> ParseEnum(s)

\* a path parameter takes the text its template segment matched
BindPath(p, path_params) == Coerce(p, path_params[p.name])

\* mutant: a query parameter is looked up under its declared name
BindQuery_ByName(p, query) ==
    IF p.type = "list"
    THEN LET l == QueryGetList(query, p.name)
         IN  IF l # <<>> THEN Ok(ListV(l))
             ELSE IF IsRequired(p) THEN Err("value_error.missing")
             ELSE Ok(p.default)
    ELSE LET raw == QueryGet(query, p.name)
         IN  IF raw # NoneV THEN Coerce(p, raw.v)
             ELSE IF IsRequired(p) THEN Err("value_error.missing")
             ELSE Ok(p.default)

\* a query parameter is looked up under its alias; absent, it is an error
\* when required and its default otherwise
BindQuery(p, query) ==
    IF p.type = "list"
    THEN LET l == QueryGetList(query, p.alias)
         IN  IF l # <<>> THEN Ok(ListV(l))
             ELSE IF IsRequired(p) THEN Err("value_error.missing")
             ELSE Ok(p.default)
    ELSE LET raw == QueryGet(query, p.alias)
         IN  IF raw # NoneV THEN Coerce(p, raw.v)
             ELSE IF IsRequired(p) THEN Err("value_error.missing")
             ELSE Ok(p.default)

\* no request body was sent
NoBody == [t |-> "nobody"]

\* one field of the Item model against the JSON object of the body
ValidateField(f, body) ==
    IF f.name \notin DOMAIN body
    THEN IF f.required THEN Err("value_error.missing") ELSE Ok(NoneV)
    ELSE LET raw == body[f.name] IN
      IF raw = NoneV
      THEN IF f.required THEN Err("type_error.none.not_allowed") ELSE Ok(NoneV)
      ELSE IF f.type = "str"
      THEN IF raw.t = "str" THEN Ok(raw) ELSE Err("type_error.str")
      ELSE IF raw.t = "float" THEN Ok(raw) ELSE Err("type_error.float")

\* mutant: validation stops at the first failure
Errors_FirstOnly(results, locs) ==
    LET bad == {i \in DOMAIN results : ~results[i].ok}
    IN  IF bad = {} THEN <<>>
        ELSE LET i == Least(bad)
             IN  << [loc |-> locs[i], type |-> results[i].type] >>

RECURSIVE Errors(_, _)
\* the failures of a sequence of results, in order, each with its location
Errors(results, locs) ==
    IF results = <<>> THEN <<>>
    ELSE (IF Head(results).ok THEN <<>>
          ELSE << [loc |-> Head(locs), type |-> Head(results).type] >>)
         \o Errors(Tail(results), Tail(locs))

\* the names of the results that succeeded mapped to their values
Values(results, names) ==
    LET good == {i \in DOMAIN results : results[i].ok}
    IN  [n \in {names[i] : i \in good} |->
            results[CHOOSE i \in good : names[i] = n].v]

\* the body as an Item: every field is validated, the failures are collected
BindBody(p, body) ==
    IF body = NoBody
    THEN [errors |-> << [loc |-> <<"body">>, type |-> "value_error.missing"] >>,
          values |-> <<>>]
    ELSE LET results == [i \in DOMAIN ItemFields |-> ValidateField(ItemFields[i], body)]
             errs == Errors(results, [i \in DOMAIN ItemFields |->
                                         <<"body", ItemFields[i].name>>])
         IN  [errors |-> errs,
              values |-> IF errs # <<>> THEN <<>>
                         ELSE (p.name :> Values(results, [i \in DOMAIN ItemFields |->
                                                             ItemFields[i].name]))]

\* the declared parameters of one source, in declaration order
From(params, src) == SelectSeq(params, LAMBDA p : p.src = src)

\* all declared parameters bound: path, then query, then body; the errors
\* of all of them are collected, none stops the others
Bind(route, path_params, query, body) ==
    LET pp == From(route.params, "path")
        qp == From(route.params, "query")
        bp == From(route.params, "body")
        pr == [i \in DOMAIN pp |-> BindPath(pp[i], path_params)]
        qr == [i \in DOMAIN qp |-> BindQuery(qp[i], query)]
        br == [i \in DOMAIN bp |-> BindBody(bp[i], body)]
        berrs == IF bp = <<>> THEN <<>> ELSE br[1].errors
        bvals == IF bp = <<>> THEN <<>> ELSE br[1].values
    IN  [errors |-> Errors(pr, [i \in DOMAIN pp |-> <<"path", pp[i].name>>])
                    \o Errors(qr, [i \in DOMAIN qp |-> <<"query", qp[i].alias>>])
                    \o berrs,
         values |-> Values(pr, [i \in DOMAIN pp |-> pp[i].name])
                    @@ Values(qr, [i \in DOMAIN qp |-> qp[i].name])
                    @@ bvals]

-----------------------------------------------------------------------------
(* Handlers *)

\* seq[start : stop] of Python: a negative index counts from the end, an
\* index past either end is clipped to it
PySlice(seq, start, stop) ==
    LET n == Len(seq)
        norm(i) == IF i < 0 THEN (IF i + n < 0 THEN 0 ELSE i + n)
                   ELSE (IF i > n THEN n ELSE i)
    IN  IF norm(start) < norm(stop) THEN SubSeq(seq, norm(start) + 1, norm(stop))
        ELSE <<>>

\* dict.update and {**d, ...}: the later keys win
Update(d, u) == u @@ d

\* mutant: the tax is never added
WithTax_NoTax(item) == Update(item, [price_with_tax |-> item.price])

\* item_dict with price_with_tax added
WithTax(item) ==
    IF Truthy(item.tax)
    THEN Update(item, [price_with_tax |-> FloatV(item.price.v + item.tax.v)])
    ELSE Update(item, [price_with_tax |-> item.price])

create_item(item, now) ==
    Update(WithTax(item), [create_time |-> StrV(now), create_user |-> StrV("Test User")])

create_item_request_path_body_params(item_id, item, now) ==
    Update([item_id |-> item_id],
           Update(WithTax(item),
                  [last_edit_time |-> StrV(now), last_edit_user |-> StrV("Test User")]))

create_item_request_body_path_params(item_id, item, now) ==
    Update([item_id |-> item_id],
           Update(WithTax(item),
                  [last_edit_time |-> StrV(now), last_edit_user |-> StrV("Test User")]))

create_item_request_body_path_query_params(item_id, item, q, now) ==
    Update([item_id |-> item_id],
           Update(WithTax(item),
                  [q |-> q, last_edit_time |-> StrV(now),
                   last_edit_user |-> StrV("Test User")]))

root == [message |-> StrV("Hello World")]

\* mutant: the slice stops at limit
read_dic_item_StopAtLimit(skip, limit) == PySlice(fake_items_db, skip.v, limit.v)

read_dic_item(skip, limit) == PySlice(fake_items_db, skip.v, skip.v + limit.v)

read_item(item_id) == [item_id |-> item_id]

\* mutant: "if q is not None" in place of "if q"
read_item_optional_param_NotNone(item_id, q) ==
    IF q # NoneV THEN [item_id |-> item_id, q |-> q] ELSE [item_id |-> item_id]

read_item_optional_param(item_id, q) ==
    IF Truthy(q) THEN [item_id |-> item_id, q |-> q] ELSE [item_id |-> item_id]

read_item_required_query_param(item_id, needy) == [item_id |-> item_id, needy |-> needy]

read_item_optional_query_and_bool_param(item_id, q, short) ==
    LET item == [item_id |-> item_id]
        item1 == IF Truthy(q) THEN Update(item, [q |-> q]) ELSE item
    IN  IF ~Truthy(short)
        THEN Update(item1, [description |->
                 StrV("This is an amazing item that has a long description")])
        ELSE item1

read_item_required_and_bool_param(item_id, needy, skip, limit) ==
    [item_id |-> item_id, needy |-> needy, skip |-> skip, limit |-> limit]

read_user_me == [user_id |-> StrV("the current user")]

read_user(user_id) == [user_id |-> user_id]

read_user_item_multiple_path_and_query_params(user_id, item_id, q, short) ==
    LET item == [item_id |-> item_id, owner_id |-> user_id]
        item1 == IF Truthy(q) THEN Update(item, [q |-> q]) ELSE item
    IN  IF ~Truthy(short)
        THEN Update(item1, [description |->
                 StrV("This is an amazing item that has a long description")])
        ELSE item1

\* mutant: the second comparison tests for the wrong variant
get_model_WrongVariant(model_name) ==
    IF model_name = StrV("alexnet")
    THEN [model_name |-> model_name, message |-> StrV("Deep Learning FTW!")]
    ELSE IF model_name.v = "resnet"
    THEN [model_name |-> model_name, message |-> StrV("LeCNN all the images")]
    ELSE [model_name |-> model_name, message |-> StrV("Have some residuals")]

get_model(model_name) ==
    IF model_name = StrV("alexnet")
    THEN [model_name |-> model_name, message |-> StrV("Deep Learning FTW!")]
    ELSE IF model_name.v = "lenet"
    THEN [model_name |-> model_name, message |-> StrV("LeCNN all the images")]
    ELSE [model_name |-> model_name, message |-> StrV("Have some residuals")]

read_file(file_path) == [file_path |-> file_path]

\* results = {"items": [...]}; if q: results.update({"q": q}); the body
\* shared by the handlers of routes/query_params_str_validations.py
ItemsResults(q) ==
    LET results == [items |-> ListV(<< [item_id |-> StrV("Foo")], [item_id |-> StrV("Bar")] >>)]
    IN  IF Truthy(q) THEN Update(results, [q |-> q]) ELSE results

read_items_with_query_params_str_validation(q) == ItemsResults(q)
read_items_with_query_params_str_max_length_validation(q) == ItemsResults(q)
read_items_with_query_params_str_max_mix_length_validation(q) == ItemsResults(q)
read_items_with_query_params_str_max_mix_length_and_regex_expression_validation(q) ==
    ItemsResults(q)
read_items_with_default_query_params_value(q) == ItemsResults(q)
read_items_with_required_query_value(q) == ItemsResults(q)
read_items_with_required_query_value_with_ellipsis(q) == ItemsResults(q)
read_items_with_required_query_value_with_none(q) == ItemsResults(q)
read_items_with_required_query_value_with_pydantic(q) == ItemsResults(q)
read_items_query_value_with_multiple_values(q) == [q |-> q]
read_items_query_value_with_multiple_default_values(q) == [q |-> q]
read_items_with_required_query_value_with_information_metadata_params(q) == ItemsResults(q)
read_items_with_alias_query_params(q) == ItemsResults(q)
read_items_with_deprecating_query_params(q) == ItemsResults(q)

read_items_with_query_params_excluded_from_open_api(hidden_query) ==
    IF Truthy(hidden_query) THEN [hidden_query |-> hidden_query]
    ELSE [hidden_query |-> StrV("Not found")]

\* the handler of a route called with the bound arguments; now is the
\* wall-clock time the handler reads
Call(e, a, now) ==
    CASE e = "create_item" -> create_item(a.item, now)
      [] e = "create_item_request_path_body_params" ->
            create_item_request_path_body_params(a.item_id, a.item, now)
      [] e = "create_item_request_body_path_params" ->
            create_item_request_body_path_params(a.item_id, a.item, now)
      [] e = "create_item_request_body_path_query_params" ->
            create_item_request_body_path_query_params(a.item_id, a.item, a.q, now)
      [] e = "root" -> root
      [] e = "read_dic_item" -> read_dic_item(a.skip, a.limit)
      [] e = "read_item" -> read_item(a.item_id)
      [] e = "read_item_optional_param" -> read_item_optional_param(a.item_id, a.q)
      [] e = "read_item_required_query_param" ->
            read_item_required_query_param(a.item_id, a.needy)
      [] e = "read_item_optional_query_and_bool_param" ->
            read_item_optional_query_and_bool_param(a.item_id, a.q, a.short)
      [] e = "read_item_required_and_bool_param" ->
            read_item_required_and_bool_param(a.item_id, a.needy, a.skip, a.limit)
      [] e = "read_user_me" -> read_user_me
      [] e = "read_user" -> read_user(a.user_id)
      [] e = "read_user_item_multiple_path_and_query_params" ->
            read_user_item_multiple_path_and_query_params(a.user_id, a.item_id, a.q, a.short)
      [] e = "get_model" -> get_model(a.model_name)
      [] e = "read_file" -> read_file(a.file_path)
      [] e = "read_items_with_query_params_str_validation" ->
            read_items_with_query_params_str_validation(a.q)
      [] e = "read_items_with_query_params_str_max_length_validation" ->
            read_items_with_query_params_str_max_length_validation(a.q)
      [] e = "read_items_with_query_params_str_max_mix_length_validation" ->
            read_items_with_query_params_str_max_mix_length_validation(a.q)
      [] e = "read_items_with_query_params_str_max_mix_length_and_regex_expression_validation" ->
            read_items_with_query_params_str_max_mix_length_and_regex_expression_validation(a.q)
      [] e = "read_items_with_default_query_params_value" ->
            read_items_with_default_query_params_value(a.q)
      [] e = "read_items_with_required_query_value" ->
            read_items_with_required_query_value(a.q)
      [] e = "read_items_with_required_query_value_with_ellipsis" ->
            read_items_with_required_query_value_with_ellipsis(a.q)
      [] e = "read_items_with_required_query_value_with_none" ->
            read_items_with_required_query_value_with_none(a.q)
      [] e = "read_items_with_required_query_value_with_pydantic" ->
            read_items_with_required_query_value_with_pydantic(a.q)
      [] e = "read_items_query_value_with_multiple_values" ->
            read_items_query_value_with_multiple_values(a.q)
      [] e = "read_items_query_value_with_multiple_default_values" ->
            read_items_query_value_with_multiple_default_values(a.q)
      [] e = "read_items_with_required_query_value_with_information_metadata_params" ->
            read_items_with_required_query_value_with_information_metadata_params(a.q)
      [] e = "read_items_with_alias_query_params" ->
            read_items_with_alias_query_params(a.q)
      [] e = "read_items_with_deprecating_query_params" ->
            read_items_with_deprecating_query_params(a.q)
      [] e = "read_items_with_query_params_excluded_from_open_api" ->
            read_items_with_query_params_excluded_from_open_api(a.hidden_query)

\* the exceptions of "x + y": a TypeError unless both operands are numbers
AddRaises(x, y) ==
    IF x.t \in {"int", "float"} /\ y.t \in {"int", "float"} THEN {} ELSE {"TypeError"}

\* the exceptions of "seq[start : stop]": a TypeError for an index that is
\* neither an integer nor None
SliceRaises(start, stop) ==
    IF start.t \in {"int", "none"} /\ stop.t \in {"int", "none"} THEN {} ELSE {"TypeError"}

\* mutant: the sum is computed without the test "if item.tax"
WithTaxRaises_NoGuard(item) == AddRaises(item.price, item.tax)

\* the exceptions of "if item.tax: ... item.price + item.tax ... else: ..."
WithTaxRaises(item) ==
    IF Truthy(item.tax) THEN AddRaises(item.price, item.tax) ELSE {}

\* the exceptions the handler of a route raises when called with the bound
\* arguments: those of its additions and of its slice; building, updating
\* and returning a dict, and testing a value for truth, raise nothing
Raises(e, a) ==
    CASE e \in {"create_item", "create_item_request_path_body_params",
                "create_item_request_body_path_params",
                "create_item_request_body_path_query_params"} -> WithTaxRaises(a.item)
      [] e = "read_dic_item" ->
            LET sum == AddRaises(a.skip, a.limit)
            IN  IF sum # {} THEN sum ELSE SliceRaises(a.skip, IntV(a.skip.v + a.limit.v))
      [] OTHER -> {}

\* mutant: create_item stores the item it is given in the mock list
AfterCall_Stored(e, a, db) ==
    IF e = "create_item" THEN Append(db, [item_name |-> a.item.name]) ELSE db

\* the mock list db after the handler of a route has run: read_dic_item
\* takes a slice of it, which is a new list; the body handlers update
\* item_dict, the new dict item.dict() gave them; no handler assigns to the
\* list or to one of its entries
AfterCall(e, a, db) ==
    CASE e = "read_dic_item" -> db
      [] e \in {"create_item", "create_item_request_path_body_params",
                "create_item_request_body_path_params",
                "create_item_request_body_path_query_params"} -> db
      [] OTHER -> db

-----------------------------------------------------------------------------
(* Requests explored *)

\* the values of datetime.now() the handlers may read
Clock == {"2022-05-23 02:45:45.893837", "2022-05-23 03:29:58.636867"}

\* the clock value passed to a handler that does not read the clock
Unread == ""

Methods == {"GET", "POST", "PUT"}

\* supplied texts: lengths around both length limits, and the regex cases
QTexts ==
    {Rep("a", n) : n \in 0 .. MaxShortLen}
    \cup {Rep("a", n) : n \in (MaxLength - 1) .. (MaxLength + MaxOverLen)}
    \cup {"fixedquery", "fixedquery\n", "fixedquerx", "xfixedquery", "foo", "bar"}

\* texts sent for integer parameters
IntQTexts == {Dec(n) : n \in (0 - MaxInt) .. MaxInt} \cup {"+1", " 1", "x", "1.5", ""}

IdTexts == {"0", Dec(MaxInt), "foo", "1.5"}

OneParamNames ==
    {"items", "items-optional-param", "items-required-query-param",
     "items-optional-query-and-bool-param", "items-required-and-optional-params"}

BodyParamNames ==
    {"items-request-body-path-params", "items-request-path-body-params",
     "items-request-body-path-query-params"}

StrValidationNames == {Routes("query_params_str_validations")[i].template[1].text :
                          i \in DOMAIN Routes("query_params_str_validations")}

ParamPaths == {<<n, x>> : n \in OneParamNames, x \in IdTexts}
BodyPaths == {<<"items", "">>} \cup {<<n, x>> : n \in BodyParamNames, x \in {"3", "foo"}}
StrValidationPaths == {<<n, "">> : n \in StrValidationNames}

Paths ==
    {<<"">>, <<"items", "">>, <<"items">>, <<"nowhere">>, <<"users">>, <<"files">>,
     <<"files", "">>, <<"files", "a.txt">>, <<"files", "home", "a.txt">>,
     <<"files", "", "etc", "passwd">>, <<"files", "home", "">>,
     <<"users", "alice", "b">>, <<"users", "alice", "">>, <<"models", "alexnet", "v2">>,
     <<"items-with-alias-query-params">>}
    \cup ParamPaths \cup BodyPaths \cup StrValidationPaths
    \cup {<<"users", u>> : u \in {"me", "Me", "alice", "3", ""}}
    \cup {<<"users", u, "items", x>> : u \in {"3", "-1", "me", "1.0"}, x \in {"0", "foo"}}
    \cup {<<"models", m>> : m \in ModelName \cup {"vgg", "AlexNet", ""}}

One(k, v) == << <<k, v>> >>
Two(k1, v1, k2, v2) == << <<k1, v1>>, <<k2, v2>> >>

PageQueries ==
    {One("skip", x) : x \in IntQTexts} \cup {One("limit", x) : x \in IntQTexts}
    \cup {Two("skip", x, "limit", y) : x, y \in IntQTexts}

StrQueries(k) == {One(k, v) : v \in QTexts}

MultiQueries ==
    {Two("q", "foo", "q", "bar"), Two("q", "bar", "q", "foo"), Two("q", "foo", "q", "foo"),
     Two("q", "aaa", "q", "a"), Two("q", "a", "q", "aaa"), Two("q", "foo", "item-query", "bar")}

MixedQueries ==
    {Two("needy", "foo", "skip", x) : x \in {"1", "x"}}
    \cup {Two("needy", "foo", "limit", x) : x \in {"2", "x"}}
    \cup {One("skip", "x"), One("skip", "1"), Two("skip", "x", "limit", "y"),
          One("short", "true"), One("short", "0"), One("short", "maybe"),
          Two("q", "foo", "short", "yes"), Two("q", "", "short", "no")}

\* a field left out of the JSON object
Absent == [t |-> "absent"]

\* the JSON object with the fields that are given
BodyOf(n, d, p, x) ==
    LET all == [name |-> n, description |-> d, price |-> p, tax |-> x]
    IN  [f \in {g \in DOMAIN all : all[g] # Absent} |-> all[f]]

\* request bodies: every field present with a value of its declared type,
\* null, or left out; price also as a text that is no number
Bodies ==
    {NoBody}
    \cup {BodyOf(n, d, p, x) :
            n \in {Absent, NoneV, StrV("Foo")},
            d \in {Absent, NoneV, StrV("An optional description")},
            p \in {Absent, StrV("abc"), FloatV(452)},
            x \in {Absent, NoneV, FloatV(0), FloatV(39), FloatV(0 - 39)}}

Req(m, p, q, b) == [method |-> m, path |-> p, query |-> q, body |-> b]

\* requests sent to every application and router
AnyRequests ==
    {Req(m, p, q, NoBody) : m \in Methods, p \in Paths, q \in {<<>>, One("q", "foo")}}

PageRequests == {Req("GET", <<"items", "">>, q, NoBody) : q \in PageQueries}

ParamRequests ==
    {Req("GET", p, q, NoBody) :
        p \in ParamPaths \cup {<<"users", "3", "items", "0">>},
        q \in StrQueries("q") \cup StrQueries("needy") \cup MixedQueries}

StrValidationRequests ==
    {Req("GET", p, q, NoBody) :
        p \in StrValidationPaths,
        q \in StrQueries("q") \cup StrQueries("item-query")
              \cup StrQueries("hidden_query") \cup MultiQueries}

BodyRequests ==
    {Req(m, p, q, b) :
        m \in {"POST", "PUT"}, p \in BodyPaths, q \in {<<>>, One("q", "foo")},
        b \in Bodies}

\* the requests sent to application or router a: those to every one, and
\* the families that exercise the routes it declares
Requests(a) ==
    AnyRequests
    \cup (IF a \in {"main", "query_params"} THEN PageRequests \cup ParamRequests ELSE {})
    \cup (IF a \in {"main", "body"} THEN BodyRequests ELSE {})
    \cup (IF a = "query_params_str_validations" THEN StrValidationRequests ELSE {})

-----------------------------------------------------------------------------
(* The state machine: one request at a time *)

NoRequest == [method |-> "", path |-> <<>>, query |-> <<>>, body |-> NoBody]
NoRoute == [kind |-> "none", route |-> 0]
NoResponse == [status |-> 0]

Init ==
    /\ pc = "idle"
    /\ app = "main"
    /\ request = NoRequest
    /\ routed = NoRoute
    /\ endpoint = "none"
    /\ args = <<>>
    /\ response = NoResponse
    /\ fake_items_db = FakeItemsDb

\* a request arrives at the application or at one of the routers, which
\* chooses the route for it
Receive ==
    /\ pc = "idle"
    /\ \E a \in Apps :
          \E r \in Requests(a) :
             /\ app' = a
             /\ request' = r
             /\ routed' = Dispatch(Routes(a), r.method, r.path)
    /\ pc' = "received"
    /\ endpoint' = "none"
    /\ args' = <<>>
    /\ response' = NoResponse
    /\ UNCHANGED fake_items_db

\* the route chosen for the request in hand
RoutedRoute == Routes(app)[routed.route]

\* the request in hand bound against the route chosen for it
Bound ==
    Bind(RoutedRoute, MatchPath(RoutedRoute.template, request.path).params,
         request.query, request.body)

\* the chosen route's handler runs with the bound arguments and its result
\* is the response; an exception it raises is answered as a server error
Serve(e, now) ==
    /\ routed.kind = "full"
    /\ RoutedRoute.endpoint = e
    /\ LET b == Bound
       IN  /\ b.errors = <<>>
           /\ endpoint' = e
           /\ args' = b.values
           /\ response' = IF Raises(e, args') = {}
                          THEN [status |-> 200, body |-> Call(e, args', now)]
                          ELSE [status |-> 500, detail |-> "Internal Server Error"]
           /\ fake_items_db' = AfterCall(e, args', fake_items_db)
    /\ pc' = "done"
    /\ UNCHANGED <<app, request, routed>>

\* some declared parameter did not bind: the request is rejected with the
\* collected errors and no handler runs
RequestValidationError ==
    /\ pc = "received"
    /\ routed.kind = "full"
    /\ LET b == Bound
       IN  /\ b.errors # <<>>
           /\ response' = [status |-> 422, detail |-> b.errors]
    /\ pc' = "done"
    /\ UNCHANGED <<app, request, routed, endpoint, args, fake_items_db>>

\* the path matches a route declared for another method
MethodNotAllowed ==
    /\ pc = "received"
    /\ routed.kind = "partial"
    /\ response' = [status |-> 405, detail |-> "Method Not Allowed"]
    /\ pc' = "done"
    /\ UNCHANGED <<app, request, routed, endpoint, args, fake_items_db>>

\* the path matches a route once its trailing slash is added or removed
RedirectSlashes ==
    /\ pc = "received"
    /\ routed.kind = "redirect"
    /\ response' = [status |-> 307, location |-> ToggleSlash(request.path)]
    /\ pc' = "done"
    /\ UNCHANGED <<app, request, routed, endpoint, args, fake_items_db>>

\* no route matches
NotFound ==
    /\ pc = "received"
    /\ routed.kind = "none"
    /\ response' = [status |-> 404, detail |-> "Not Found"]
    /\ pc' = "done"
    /\ UNCHANGED <<app, request, routed, endpoint, args, fake_items_db>>

\* the response is sent and nothing of the request is kept; the next
\* request can arrive
Respond ==
    /\ pc = "done"
    /\ pc' = "idle"
    /\ app' = "main"
    /\ request' = NoRequest
    /\ routed' = NoRoute
    /\ endpoint' = "none"
    /\ args' = <<>>
    /\ response' = NoResponse
    /\ UNCHANGED fake_items_db

\* one action for each handler
Serve_create_item ==
    /\ pc = "received"
    /\ \E now \in Clock : Serve("create_item", now)

Serve_create_item_request_path_body_params ==
    /\ pc = "received"
    /\ \E now \in Clock : Serve("create_item_request_path_body_params", now)

Serve_create_item_request_body_path_params ==
    /\ pc = "received"
    /\ \E now \in Clock : Serve("create_item_request_body_path_params", now)

Serve_create_item_request_body_path_query_params ==
    /\ pc = "received"
    /\ \E now \in Clock : Serve("create_item_request_body_path_query_params", now)

Serve_root ==
    /\ pc = "received"
    /\ Serve("root", Unread)

Serve_read_dic_item ==
    /\ pc = "received"
    /\ Serve("read_dic_item", Unread)

Serve_read_item ==
    /\ pc = "received"
    /\ Serve("read_item", Unread)

Serve_read_item_optional_param ==
    /\ pc = "received"
    /\ Serve("read_item_optional_param", Unread)

Serve_read_item_required_query_param ==
    /\ pc = "received"
    /\ Serve("read_item_required_query_param", Unread)

Serve_read_item_optional_query_and_bool_param ==
    /\ pc = "received"
    /\ Serve("read_item_optional_query_and_bool_param", Unread)

Serve_read_item_required_and_bool_param ==
    /\ pc = "received"
    /\ Serve("read_item_required_and_bool_param", Unread)

Serve_read_user_me ==
    /\ pc = "received"
    /\ Serve("read_user_me", Unread)

Serve_read_user ==
    /\ pc = "received"
    /\ Serve("read_user", Unread)

Serve_read_user_item_multiple_path_and_query_params ==
    /\ pc = "received"
    /\ Serve("read_user_item_multiple_path_and_query_params", Unread)

Serve_get_model ==
    /\ pc = "received"
    /\ Serve("get_model", Unread)

Serve_read_file ==
    /\ pc = "received"
    /\ Serve("read_file", Unread)

Serve_read_items_with_query_params_str_validation ==
    /\ pc = "received"
    /\ Serve("read_items_with_query_params_str_validation", Unread)

Serve_read_items_with_query_params_str_max_length_validation ==
    /\ pc = "received"
    /\ Serve("read_items_with_query_params_str_max_length_validation", Unread)

Serve_read_items_with_query_params_str_max_mix_length_validation ==
    /\ pc = "received"
    /\ Serve("read_items_with_query_params_str_max_mix_length_validation", Unread)

Serve_read_items_with_query_params_str_max_mix_length_and_regex_expression_validation ==
    /\ pc = "received"
    /\ Serve("read_items_with_query_params_str_max_mix_length_and_regex_expression_validation", Unread)

Serve_read_items_with_default_query_params_value ==
    /\ pc = "received"
    /\ Serve("read_items_with_default_query_params_value", Unread)

Serve_read_items_with_required_query_value ==
    /\ pc = "received"
    /\ Serve("read_items_with_required_query_value", Unread)

Serve_read_items_with_required_query_value_with_ellipsis ==
    /\ pc = "received"
    /\ Serve("read_items_with_required_query_value_with_ellipsis", Unread)

Serve_read_items_with_required_query_value_with_none ==
    /\ pc = "received"
    /\ Serve("read_items_with_required_query_value_with_none", Unread)

Serve_read_items_with_required_query_value_with_pydantic ==
    /\ pc = "received"
    /\ Serve("read_items_with_required_query_value_with_pydantic", Unread)

Serve_read_items_query_value_with_multiple_values ==
    /\ pc = "received"
    /\ Serve("read_items_query_value_with_multiple_values", Unread)

Serve_read_items_query_value_with_multiple_default_values ==
    /\ pc = "received"
    /\ Serve("read_items_query_value_with_multiple_default_values", Unread)

Serve_read_items_with_required_query_value_with_information_metadata_params ==
    /\ pc = "received"
    /\ Serve("read_items_with_required_query_value_with_information_metadata_params", Unread)

Serve_read_items_with_alias_query_params ==
    /\ pc = "received"
    /\ Serve("read_items_with_alias_query_params", Unread)

Serve_read_items_with_deprecating_query_params ==
    /\ pc = "received"
    /\ Serve("read_items_with_deprecating_query_params", Unread)

Serve_read_items_with_query_params_excluded_from_open_api ==
    /\ pc = "received"
    /\ Serve("read_items_with_query_params_excluded_from_open_api", Unread)

Next ==
    \/ Receive
    \/ Serve_create_item
    \/ Serve_create_item_request_path_body_params
    \/ Serve_create_item_request_body_path_params
    \/ Serve_create_item_request_body_path_query_params
    \/ Serve_root
    \/ Serve_read_dic_item
    \/ Serve_read_item
    \/ Serve_read_item_optional_param
    \/ Serve_read_item_required_query_param
    \/ Serve_read_item_optional_query_and_bool_param
    \/ Serve_read_item_required_and_bool_param
    \/ Serve_read_user_me
    \/ Serve_read_user
    \/ Serve_read_user_item_multiple_path_and_query_params
    \/ Serve_get_model
    \/ Serve_read_file
    \/ Serve_read_items_with_query_params_str_validation
    \/ Serve_read_items_with_query_params_str_max_length_validation
    \/ Serve_read_items_with_query_params_str_max_mix_length_validation
    \/ Serve_read_items_with_query_params_str_max_mix_length_and_regex_expression_validation
    \/ Serve_read_items_with_default_query_params_value
    \/ Serve_read_items_with_required_query_value
    \/ Serve_read_items_with_required_query_value_with_ellipsis
    \/ Serve_read_items_with_required_query_value_with_none
    \/ Serve_read_items_with_required_query_value_with_pydantic
    \/ Serve_read_items_query_value_with_multiple_values
    \/ Serve_read_items_query_value_with_multiple_default_values
    \/ Serve_read_items_with_required_query_value_with_information_metadata_params
    \/ Serve_read_items_with_alias_query_params
    \/ Serve_read_items_with_deprecating_query_params
    \/ Serve_read_items_with_query_params_excluded_from_open_api
    \/ RequestValidationError
    \/ MethodNotAllowed
    \/ RedirectSlashes
    \/ NotFound
    \/ Respond

Spec == Init /\ [][Next]_vars

-----------------------------------------------------------------------------
(* Concurrent requests: the application serves several connections at once.
   Every handler is an "async def" without an await, so its body runs as one
   step of the event loop; the steps of different requests (routing, binding,
   the handler, sending the response) interleave.  In this specification each
   of pc, app, request, routed, endpoint, args and response holds one value
   for each connection; fake_items_db is the one list they all share. *)

\* the connections served at once
MaxConnections == 2
Connections == 1 .. MaxConnections

\* the requests sent over the connections, all to the application of main.py
ConcurrentRequests ==
    {Req("GET", <<"items", "">>, q, NoBody) :
        q \in {<<>>, Two("skip", "1", "limit", "1"), One("skip", "-1"), One("skip", "x")}}
    \cup {Req("POST", <<"items", "">>, <<>>, b) :
            b \in {NoBody, BodyOf(StrV("Foo"), Absent, FloatV(452), FloatV(39)),
                   BodyOf(StrV("Bar"), NoneV, FloatV(452), Absent)}}
    \cup {Req("PUT", <<"items-request-body-path-query-params", x>>, One("q", "foo"),
              BodyOf(StrV("Foo"), Absent, FloatV(452), FloatV(39))) : x \in {"3", "foo"}}
    \cup {Req("GET", <<"users", "me">>, <<>>, NoBody),
          Req("POST", <<"users", "me">>, <<>>, NoBody),
          Req("GET", <<"nowhere">>, <<>>, NoBody)}

InitConcurrent ==
    /\ pc = [c \in Connections |-> "idle"]
    /\ app = [c \in Connections |-> "main"]
    /\ request = [c \in Connections |-> NoRequest]
    /\ routed = [c \in Connections |-> NoRoute]
    /\ endpoint = [c \in Connections |-> "none"]
    /\ args = [c \in Connections |-> <<>>]
    /\ response = [c \in Connections |-> NoResponse]
    /\ fake_items_db = FakeItemsDb

\* the route chosen for the request of connection c
RouteOf(c) == Routes(app[c])[routed[c].route]

\* the request of connection c bound against the route chosen for it
BoundOf(c) ==
    Bind(RouteOf(c), MatchPath(RouteOf(c).template, request[c].path).params,
         request[c].query, request[c].body)

\* a request arrives on an idle connection and the router chooses its route
AcceptRequest ==
    /\ \E c \in Connections :
          /\ pc[c] = "idle"
          /\ \E r \in ConcurrentRequests :
                /\ request' = [request EXCEPT ![c] = r]
                /\ routed' = [routed EXCEPT ![c] = Dispatch(Routes(app[c]), r.method, r.path)]
          /\ pc' = [pc EXCEPT ![c] = "received"]
    /\ UNCHANGED <<app, endpoint, args, response, fake_items_db>>

\* the declared parameters of the chosen route are bound to the request
BindArguments ==
    /\ \E c \in Connections :
          /\ pc[c] = "received"
          /\ routed[c].kind = "full"
          /\ BoundOf(c).errors = <<>>
          /\ args' = [args EXCEPT ![c] = BoundOf(c).values]
          /\ pc' = [pc EXCEPT ![c] = "bound"]
    /\ UNCHANGED <<app, request, routed, endpoint, response, fake_items_db>>

\* some declared parameter does not bind: the request is rejected
RejectArguments ==
    /\ \E c \in Connections :
          /\ pc[c] = "received"
          /\ routed[c].kind = "full"
          /\ BoundOf(c).errors # <<>>
          /\ response' = [response EXCEPT ![c] = [status |-> 422, detail |-> BoundOf(c).errors]]
          /\ pc' = [pc EXCEPT ![c] = "done"]
    /\ UNCHANGED <<app, request, routed, endpoint, args, fake_items_db>>

\* the handler runs, from its first statement to its return, on the list as
\* it is at that moment
RunHandler ==
    /\ \E c \in Connections :
          /\ pc[c] = "bound"
          /\ \E now \in Clock :
                LET e == RouteOf(c).endpoint IN
                  /\ endpoint' = [endpoint EXCEPT ![c] = e]
                  /\ response' = [response EXCEPT ![c] =
                        IF Raises(e, args[c]) = {}
                        THEN [status |-> 200, body |-> Call(e, args[c], now)]
                        ELSE [status |-> 500, detail |-> "Internal Server Error"]]
                  /\ fake_items_db' = AfterCall(e, args[c], fake_items_db)
          /\ pc' = [pc EXCEPT ![c] = "done"]
    /\ UNCHANGED <<app, request, routed, args>>

\* no route matches the method and the path together
AnswerUnmatched ==
    /\ \E c \in Connections :
          /\ pc[c] = "received"
          /\ routed[c].kind # "full"
          /\ response' = [response EXCEPT ![c] =
                CASE routed[c].kind = "partial" ->
                        [status |-> 405, detail |-> "Method Not Allowed"]
                  [] routed[c].kind = "redirect" ->
                        [status |-> 307, location |-> ToggleSlash(request[c].path)]
                  [] OTHER -> [status |-> 404, detail |-> "Not Found"]]
          /\ pc' = [pc EXCEPT ![c] = "done"]
    /\ UNCHANGED <<app, request, routed, endpoint, args, fake_items_db>>

\* the response is sent; the connection is free for the next request
SendResponse ==
    /\ \E c \in Connections :
          /\ pc[c] = "done"
          /\ pc' = [pc EXCEPT ![c] = "idle"]
          /\ request' = [request EXCEPT ![c] = NoRequest]
          /\ routed' = [routed EXCEPT ![c] = NoRoute]
          /\ endpoint' = [endpoint EXCEPT ![c] = "none"]
          /\ args' = [args EXCEPT ![c] = <<>>]
          /\ response' = [response EXCEPT ![c] = NoResponse]
    /\ UNCHANGED <<app, fake_items_db>>

NextConcurrent ==
    \/ AcceptRequest
    \/ BindArguments
    \/ RejectArguments
    \/ RunHandler
    \/ AnswerUnmatched
    \/ SendResponse

SpecConcurrent == InitConcurrent /\ [][NextConcurrent]_vars

-----------------------------------------------------------------------------
(* Properties *)

\* the request in hand has been answered
Answered == pc = "done"
\* a handler ran for the request in hand
Ran == Answered /\ endpoint # "none"
\* the request in hand was matched, method and path, by a declared route
Matched == Answered /\ routed.kind = "full"

\* the keys of the query string of the request in hand
QueryKeys == {request.query[i][1] : i \in DOMAIN request.query}
\* the query string of the request in hand is the single pair key=value
Supplies(key, value) == request.query = << <<key, value>> >>

\* the tags of the values a handler can be called with
ValueTags == {"none", "str", "int", "float", "bool", "list"}
ItemFieldNames == {ItemFields[i].name : i \in DOMAIN ItemFields}

\* C1: a handler runs only with every declared parameter of its route bound
\* to a value, taken from the request or, for a parameter the request does
\* not give, from the declared default; a request that leaves out a
\* parameter declared without a default value is rejected, and a rejected
\* request reaches no handler and binds nothing.
C1_BindingIsTotal ==
    Answered =>
      /\ Ran =>
           /\ Matched
           /\ endpoint = RoutedRoute.endpoint
           /\ response.status = 200
           /\ DOMAIN args = {RoutedRoute.params[i].name : i \in DOMAIN RoutedRoute.params}
           /\ \A i \in DOMAIN RoutedRoute.params :
                 LET p == RoutedRoute.params[i] IN
                   /\ IF p.src = "body" THEN DOMAIN args[p.name] = ItemFieldNames
                      ELSE args[p.name].t \in ValueTags
                   /\ (p.src = "query" /\ p.alias \notin QueryKeys)
                         => args[p.name] = p.default
      /\ (/\ Matched
          /\ \E i \in DOMAIN RoutedRoute.params :
                LET p == RoutedRoute.params[i] IN
                  /\ p.src = "query"
                  /\ p.default \in {Undefined, Ellipsis}
                  /\ p.alias \notin QueryKeys)
            => ~Ran /\ response.status = 422
      /\ response.status # 200 => endpoint = "none" /\ args = <<>>

\* C1 witness: a handler has run with one parameter from the path, one from
\* the query string and two from their defaults
C1_Witness ==
    /\ Ran
    /\ endpoint = "read_item_required_and_bool_param"
    /\ QueryKeys = {"needy"}
    /\ args.needy = StrV("foo")
    /\ args.skip = IntV(0)
    /\ args.limit = NoneV

\* GET /users/X has been answered by the application or the path_params router
UsersRequest ==
    /\ Answered
    /\ app \in {"main", "path_params"}
    /\ request.method = "GET"
    /\ Len(request.path) = 2
    /\ request.path[1] = "users"

\* C2: GET /users/me is always answered by read_user_me with
\* {"user_id": "the current user"}, never by read_user; GET /users/X for any
\* other (non-empty) segment X is answered by read_user with {"user_id": X}.
C2_UsersMeFirst ==
    (UsersRequest /\ request.path[2] # "") =>
       IF request.path[2] = "me"
       THEN /\ endpoint = "read_user_me"
            /\ response = [status |-> 200,
                           body |-> [user_id |-> StrV("the current user")]]
       ELSE /\ endpoint = "read_user"
            /\ response = [status |-> 200,
                           body |-> [user_id |-> StrV(request.path[2])]]

\* C2 witness: GET /users/me has been answered by read_user_me
C2_Witness ==
    /\ UsersRequest
    /\ request.path[2] = "me"
    /\ app = "main"
    /\ endpoint = "read_user_me"

\* the message of each model, as documented
ModelMessage(m) ==
    CASE m = "alexnet" -> "Deep Learning FTW!"
      [] m = "lenet" -> "LeCNN all the images"
      [] m = "resnet" -> "Have some residuals"

\* GET /models/X has been answered by the application or the path_params router
ModelsRequest ==
    /\ Answered
    /\ app \in {"main", "path_params"}
    /\ request.method = "GET"
    /\ Len(request.path) = 2
    /\ request.path[1] = "models"

\* C3: for every value of ModelName, GET /models/{model_name} is answered by
\* get_model with that model_name and its one fixed message.
C3_ModelMessages ==
    /\ (ModelsRequest /\ request.path[2] \in ModelName) =>
          /\ endpoint = "get_model"
          /\ response = [status |-> 200,
                         body |-> [model_name |-> StrV(request.path[2]),
                                   message |-> StrV(ModelMessage(request.path[2]))]]
    /\ (Ran /\ endpoint = "get_model") =>
          /\ args.model_name.v \in ModelName
          /\ response.body.message = StrV(ModelMessage(args.model_name.v))

\* C3 witness: get_model has answered for resnet, the fall-through variant
C3_Witness ==
    /\ ModelsRequest
    /\ request.path[2] = "resnet"
    /\ endpoint = "get_model"
    /\ response.body.message = StrV("Have some residuals")

\* C4 as claimed: GET /models/X for a segment X that is no value of
\* ModelName yields not-found, and get_model does not run.
C4_UnknownModelNotFound ==
    (ModelsRequest /\ request.path[2] \notin ModelName) =>
       /\ response.status = 404
       /\ endpoint # "get_model"

\* C4 as amended: GET /models/X for a non-empty segment X that is no value
\* of ModelName matches the route and is rejected with one validation error
\* of kind type_error at the path parameter model_name; get_model does not
\* run.  (An empty segment matches no route: not found.)
C4_UnknownModelRejected ==
    (ModelsRequest /\ request.path[2] \notin ModelName) =>
       /\ endpoint = "none"
       /\ IF request.path[2] = ""
          THEN response.status = 404
          ELSE /\ Matched
               /\ RoutedRoute.endpoint = "get_model"
               /\ response.status = 422
               /\ Len(response.detail) = 1
               /\ response.detail[1].loc = <<"path", "model_name">>
               /\ Kind(response.detail[1].type) = "type_error"

\* C4 witness: GET /models/vgg has been rejected
C4_Witness ==
    /\ ModelsRequest
    /\ request.path[2] = "vgg"
    /\ response.status = 422

\* the entries of the mock list at the indices i with lo <= i < hi, in order
Entries(lo, hi) == [k \in 1 .. (IF hi > lo THEN hi - lo ELSE 0) |-> FakeItemsDb[lo + k]]

BodyEndpoints ==
    {"create_item", "create_item_request_path_body_params",
     "create_item_request_body_path_params", "create_item_request_body_path_query_params"}

\* the value the body gives for an optional field: null when it is left out
Given(body, field) == IF field \in DOMAIN body THEN body[field] ELSE NoneV

C7_OptionalQueryEcho ==
    (Ran /\ endpoint = "read_item_optional_param") =>
       /\ response.body.item_id = StrV(request.path[2])
       /\ "q" \notin QueryKeys => DOMAIN response.body = {"item_id"}
       /\ \A v \in QTexts :
             Supplies("q", v) =>
                IF v = "" THEN DOMAIN response.body = {"item_id"}
                ELSE /\ DOMAIN response.body = {"item_id", "q"}
                     /\ response.body.q = StrV(v)

\* C7 witness: the handler has answered a request whose q is the empty text
C7_Witness ==
    /\ Ran
    /\ endpoint = "read_item_optional_param"
    /\ Supplies("q", "")
    /\ response.body = [item_id |-> StrV("foo")]

\* the routes that declare q required with min_length=3: with no default,
\* with default=... and with default=Required
RequiredForms ==
    {"read_items_with_required_query_value",
     "read_items_with_required_query_value_with_ellipsis",
     "read_items_with_required_query_value_with_pydantic"}

\* what the route of handler e of the str-validations router answers to the
\* query string of the request in hand
AnswerOf(e) ==
    LET rs == Routes("query_params_str_validations")
        r == rs[CHOOSE i \in DOMAIN rs : rs[i].endpoint = e]
        b == Bind(r, <<>>, request.query, request.body)
    IN  IF b.errors # <<>> THEN [status |-> 422, detail |-> b.errors]
        ELSE [status |-> 200, body |-> Call(e, b.values, Unread)]

\* C8: a request that leaves out a query parameter declared required (with
\* no default, with default=... or with default=Required) is rejected with a
\* validation error of kind missing at that query field and no handler runs;
\* the three forms answer every request alike.
C8_RequiredQuery ==
    /\ Matched =>
          \A i \in DOMAIN RoutedRoute.params :
             LET p == RoutedRoute.params[i] IN
               (/\ p.src = "query"
                /\ p.default \in {Undefined, Ellipsis, Required}
                /\ p.alias \notin QueryKeys)
               => /\ ~Ran
                  /\ response.status = 422
                  /\ \E k \in DOMAIN response.detail :
                        /\ response.detail[k].loc = <<"query", p.alias>>
                        /\ Kind(response.detail[k].type) = "missing"
    /\ (Matched /\ RoutedRoute.endpoint \in RequiredForms) =>
          \A e \in RequiredForms : response = AnswerOf(e)

\* C8 witness: the route declaring q with default=Required has rejected a
\* request without q
C8_Witness ==
    /\ Matched
    /\ RoutedRoute.endpoint = "read_items_with_required_query_value_with_pydantic"
    /\ request.query = <<>>
    /\ response.status = 422
    /\ endpoint = "none"

\* C9: for q declared with min_length=3 and max_length=50, a supplied value
\* shorter than 3 is rejected with kind too_short, one longer than 50 with
\* kind too_long, and a value of a length from 3 to 50 (both included) is
\* accepted and echoed.
C9_LengthLimits ==
    (/\ Matched
     /\ RoutedRoute.endpoint = "read_items_with_query_params_str_max_mix_length_validation")
    => \A v \in QTexts :
          Supplies("q", v) =>
             IF Len(v) < 3
             THEN /\ ~Ran
                  /\ response.status = 422
                  /\ Len(response.detail) = 1
                  /\ response.detail[1].loc = <<"query", "q">>
                  /\ Kind(response.detail[1].type) = "too_short"
             ELSE IF Len(v) > 50
             THEN /\ ~Ran
                  /\ response.status = 422
                  /\ Len(response.detail) = 1
                  /\ response.detail[1].loc = <<"query", "q">>
                  /\ Kind(response.detail[1].type) = "too_long"
             ELSE /\ Ran
                  /\ response.status = 200
                  /\ response.body.q = StrV(v)

\* C9 witness: a value of length exactly 50 has been accepted and echoed
C9_Witness ==
    /\ Ran
    /\ endpoint = "read_items_with_query_params_str_max_mix_length_validation"
    /\ \E v \in QTexts : Len(v) = 50 /\ Supplies("q", v) /\ response.body.q = StrV(v)

\* the routes that declare regex="^fixedquery$", and the name each is
\* consulted under
RegexRoutes ==
    {"read_items_with_query_params_str_max_mix_length_and_regex_expression_validation",
     "read_items_with_deprecating_query_params"}
RegexKey ==
    IF RoutedRoute.endpoint = "read_items_with_deprecating_query_params"
    THEN "item-query" ELSE "q"

\* C10 as claimed: for the parameter constrained by regex ^fixedquery$ the
\* only supplied value that is accepted is the literal text "fixedquery".
C10_OnlyFixedQueryAccepted ==
    (Matched /\ RoutedRoute.endpoint \in RegexRoutes) =>
       \A v \in QTexts :
          (Supplies(RegexKey, v) /\ v # "") =>
             (response.status = 200 <=> v = "fixedquery")

\* C10 as claimed, second half: every other non-empty supplied value is
\* rejected with kind pattern_mismatch.
C10_OthersPatternMismatch ==
    (Matched /\ RoutedRoute.endpoint \in RegexRoutes) =>
       \A v \in QTexts :
          (Supplies(RegexKey, v) /\ v # "" /\ v # "fixedquery") =>
             /\ response.status = 422
             /\ \E k \in DOMAIN response.detail :
                   Kind(response.detail[k].type) = "pattern_mismatch"

\* GET /items-with-alias-query-params/ has been matched and answered
AliasRequest ==
    /\ Matched
    /\ RoutedRoute.endpoint = "read_items_with_alias_query_params"

\* C11 as claimed: ?item-query=v binds q = v and the response contains
\* "q": v, for every supplied v; ?q=v leaves q at None and the response has
\* no q key.
C11_AliasAlwaysEchoed ==
    AliasRequest =>
       \A v \in QTexts :
          /\ Supplies("item-query", v) =>
                /\ Ran
                /\ args.q = StrV(v)
                /\ "q" \in DOMAIN response.body
                /\ response.body.q = StrV(v)
          /\ Supplies("q", v) =>
                /\ Ran
                /\ args.q = NoneV
                /\ "q" \notin DOMAIN response.body

\* C11: the parameter q declared with alias "item-query" is consulted only
\* under the alias: ?item-query=v binds q = v, and the response contains
\* "q": v when v is not the empty text and no q key when it is; ?q=v is
\* treated as absent, q is None and the response has no q key; with both
\* names in the query string the value under the alias is the one bound.
C11_AliasOnly ==
    AliasRequest =>
       /\ \A v \in QTexts :
             /\ Supplies("item-query", v) =>
                   /\ Ran
                   /\ args.q = StrV(v)
                   /\ IF v # ""
                      THEN "q" \in DOMAIN response.body /\ response.body.q = StrV(v)
                      ELSE "q" \notin DOMAIN response.body
             /\ Supplies("q", v) =>
                   /\ Ran
                   /\ args.q = NoneV
                   /\ "q" \notin DOMAIN response.body
       /\ request.query = Two("q", "foo", "item-query", "bar") =>
             /\ Ran
             /\ args.q = StrV("bar")
             /\ response.body.q = StrV("bar")
       /\ Ran => DOMAIN args = {"q"}

\* C11 witness: ?item-query=foo has been bound to q and echoed under "q"
C11_Witness ==
    /\ AliasRequest
    /\ Ran
    /\ Supplies("item-query", "foo")
    /\ args.q = StrV("foo")
    /\ response.body.q = StrV("foo")

\* the routes that declare q as a list of strings, and the default of each
ListRoutes ==
    {"read_items_query_value_with_multiple_values",
     "read_items_query_value_with_multiple_default_values"}
ListDefault(e) ==
    IF e = "read_items_query_value_with_multiple_default_values"
    THEN ListV(<<"foo", "bar">>) ELSE NoneV

SrcRank(src) == CASE src = "path" -> 1 [] src = "query" -> 2 [] src = "body" -> 3

\* the place of an error location among the declarations of its source:
\* the position of the parameter in the signature, of the field in the model
DeclaredAt(loc) ==
    IF loc[1] = "body"
    THEN IF Len(loc) = 1 THEN 0
         ELSE CHOOSE i \in DOMAIN ItemFields : ItemFields[i].name = loc[2]
    ELSE CHOOSE i \in DOMAIN RoutedRoute.params :
            /\ RoutedRoute.params[i].src = loc[1]
            /\ RoutedRoute.params[i].alias = loc[2]

\* location l1 is reported before location l2
Before(l1, l2) ==
    \/ SrcRank(l1[1]) < SrcRank(l2[1])
    \/ l1[1] = l2[1] /\ DeclaredAt(l1) < DeclaredAt(l2)

\* the path or query parameter p of the chosen route does not bind to the
\* request in hand, taken on its own
FailsAlone(p) ==
    \/ p.src = "path"
         /\ ~BindPath(p, MatchPath(RoutedRoute.template, request.path).params).ok
    \/ p.src = "query" /\ ~BindQuery(p, request.query).ok

\* C13: validation failures are aggregated, not short-circuited: a rejected
\* request gets one rejection whose detail list has exactly one entry for
\* each failing parameter (each failing field of the body), in a fixed
\* order: path, query, body, and declaration order within each.
C13_ErrorsAggregated ==
    (Matched /\ response.status = 422) =>
       LET d == response.detail IN
       /\ d # <<>>
       /\ \A i \in DOMAIN RoutedRoute.params :
             LET p == RoutedRoute.params[i] IN
               p.src # "body" =>
                  (FailsAlone(p) <=> \E k \in DOMAIN d : d[k].loc = <<p.src, p.alias>>)
       /\ \A j, k \in DOMAIN d : j < k => Before(d[j].loc, d[k].loc)
       /\ (/\ RoutedRoute.endpoint = "read_item_required_and_bool_param"
           /\ request.query = One("skip", "x"))
          => d = << [loc |-> <<"query", "needy">>, type |-> "value_error.missing"],
                    [loc |-> <<"query", "skip">>, type |-> "type_error.integer"] >>
       /\ (/\ RoutedRoute.endpoint = "read_item_required_and_bool_param"
           /\ request.query = Two("skip", "x", "limit", "y"))
          => /\ Len(d) = 3
             /\ d[1].loc = <<"query", "needy">>
             /\ d[2].loc = <<"query", "skip">>
             /\ d[3].loc = <<"query", "limit">>
       /\ (/\ RoutedRoute.endpoint = "create_item_request_body_path_query_params"
           /\ request.path[2] = "foo"
           /\ request.body # NoBody
           /\ DOMAIN request.body = {"price"}
           /\ request.body.price = StrV("abc"))
          => d = << [loc |-> <<"path", "item_id">>, type |-> "type_error.integer"],
                    [loc |-> <<"body", "name">>, type |-> "value_error.missing"],
                    [loc |-> <<"body", "price">>, type |-> "type_error.float"] >>

\* C13 witness: a request without needy and with skip=x has been rejected
\* with two entries
C13_Witness ==
    /\ Matched
    /\ RoutedRoute.endpoint = "read_item_required_and_bool_param"
    /\ request.query = One("skip", "x")
    /\ response.status = 422
    /\ Len(response.detail) = 2

\* the integers a supplied text stands for: its decimal reading, with an
\* optional sign and blanks around it; no integer for any other text
IntegerOf(s) ==
    {n \in (0 - MaxInt) .. MaxInt :
        \/ s = Dec(n)
        \/ n >= 0 /\ s = "+" \o Dec(n)
        \/ s = " " \o Dec(n)}

\* the text the request in hand supplies for the integer parameter p of the
\* chosen route: its path segment, or the value of its pair of the query
\* string; no text when the query string has no such pair
SuppliedFor(p) ==
    IF p.src = "path" THEN {request.path[2]}
    ELSE {request.query[i][2] : i \in {j \in DOMAIN request.query :
                                           request.query[j][1] = p.alias}}

\* the routes the claim names: GET /items/{item_id}, GET /items/ and
\* GET /users/{user_id}/items/{item_id}
IntegerRoutes ==
    {"read_item", "read_dic_item", "read_user_item_multiple_path_and_query_params"}

\* C14: a path or query parameter declared as integer accepts exactly the
\* supplied texts that parse as integers, and binds the integer; any other
\* text is rejected with an error of kind type_error at that parameter and
\* the handler does not run.
C14_IntegerParameters ==
    (Matched /\ RoutedRoute.endpoint \in IntegerRoutes) =>
       \A i \in DOMAIN RoutedRoute.params :
          LET p == RoutedRoute.params[i] IN
            p.type = "int" =>
               \A s \in SuppliedFor(p) :
                  IF IntegerOf(s) = {}
                  THEN /\ ~Ran
                       /\ response.status = 422
                       /\ \E k \in DOMAIN response.detail :
                             /\ response.detail[k].loc = <<p.src, p.alias>>
                             /\ Kind(response.detail[k].type) = "type_error"
                  ELSE /\ response.status = 422 =>
                             \A k \in DOMAIN response.detail :
                                response.detail[k].loc # <<p.src, p.alias>>
                       /\ Ran => args[p.name] \in {IntV(n) : n \in IntegerOf(s)}

\* C14 witness: GET /users/1.0/items/0 has been rejected for its user_id
C14_Witness ==
    /\ Matched
    /\ RoutedRoute.endpoint = "read_user_item_multiple_path_and_query_params"
    /\ request.path[2] = "1.0"
    /\ response.status = 422
    /\ endpoint = "none"

\* GET /files/... has been answered by the application or the path_params
\* router
FilesRequest ==
    /\ Answered
    /\ app \in {"main", "path_params"}
    /\ request.method = "GET"
    /\ Len(request.path) >= 2
    /\ request.path[1] = "files"

\* the text that follows "/files/" in each of the paths requested
Remainder(path) ==
    CASE path = <<"files", "a.txt">> -> "a.txt"
      [] path = <<"files", "home", "a.txt">> -> "home/a.txt"
      [] path = <<"files", "", "etc", "passwd">> -> "/etc/passwd"
      [] path = <<"files", "home", "">> -> "home/"
      [] path = <<"files", "">> -> ""

\* C15: the greedy path parameter of GET /files/{file_path:path} binds the
\* whole remainder of the path, '/' characters included, and read_file
\* returns it unchanged as {"file_path": remainder}; an ordinary path
\* parameter never matches a value containing '/': a handler of a template
\* without a greedy parameter runs only for a path of as many segments as
\* the template, each parameter bound within one segment.
C15_GreedyPath ==
    /\ FilesRequest =>
          /\ Ran
          /\ endpoint = "read_file"
          /\ args.file_path = StrV(Remainder(request.path))
          /\ response = [status |-> 200,
                         body |-> [file_path |-> StrV(Remainder(request.path))]]
    /\ (Ran /\ endpoint # "read_file") =>
          /\ Len(request.path) = Len(RoutedRoute.template)
          /\ \A i \in DOMAIN RoutedRoute.template :
                LET h == RoutedRoute.template[i] IN
                  /\ h.kind # "rest"
                  /\ (h.kind = "var" /\ args[h.name].t = "str")
                        => args[h.name] = StrV(request.path[i])
    /\ (Answered /\ request.path \in {<<"users", "alice", "b">>,
                                      <<"models", "alexnet", "v2">>})
          => ~Ran /\ response.status = 404

\* C15 witness: GET /files/home/a.txt has been answered by read_file with
\* the remainder "home/a.txt"
C15_Witness ==
    /\ FilesRequest
    /\ request.path = <<"files", "home", "a.txt">>
    /\ endpoint = "read_file"
    /\ response.body.file_path = StrV("home/a.txt")

\* the request in hand has been answered and no declared route matches its
\* method and path together
Unmatched ==
    /\ Answered
    /\ \A i \in DOMAIN Routes(app) :
          ~(/\ Routes(app)[i].method = request.method
            /\ MatchPath(Routes(app)[i].template, request.path).ok)

\* some declared template, of whatever method, matches the path
SomeTemplate(path) ==
    \E i \in DOMAIN Routes(app) : MatchPath(Routes(app)[i].template, path).ok

\* C16 as claimed: a request whose method and path match no declared
\* (method, path template) pair receives the not-found response, also when
\* its path matches a declared template under a different method.
C16_UnmatchedIsNotFound ==
    Unmatched => response.status = 404

\* C16: a request whose method and path match no declared (method, path
\* template) pair reaches no handler; it receives the method-not-allowed
\* response (405) when its path matches a declared template under a
\* different method (POST /users/me), else a redirect (307) to the path with
\* its trailing slash added or removed when that path matches a declared
\* template, and the not-found response (404) otherwise.
C16_UnmatchedRequests ==
    /\ Unmatched =>
          /\ ~Ran
          /\ args = <<>>
          /\ IF SomeTemplate(request.path)
             THEN response = [status |-> 405, detail |-> "Method Not Allowed"]
             ELSE IF request.path # <<"">> /\ SomeTemplate(ToggleSlash(request.path))
             THEN response = [status |-> 307, location |-> ToggleSlash(request.path)]
             ELSE response = [status |-> 404, detail |-> "Not Found"]
    /\ (Answered /\ app \in {"main", "path_params"}
        /\ request.method = "POST" /\ request.path = <<"users", "me">>)
          => response.status = 405
    /\ (Answered /\ request.path = <<"nowhere">>) => response.status = 404
    /\ Answered => (response.status \in {404, 405, 307} <=> Unmatched)

\* C16 witness: POST /users/me has been answered by the application with
\* method not allowed, no handler having run
C16_Witness ==
    /\ Unmatched
    /\ app = "main"
    /\ request.method = "POST"
    /\ request.path = <<"users", "me">>
    /\ response.status = 405
    /\ endpoint = "none"

\* the keys of the mappings the handlers return
ResponseKeys ==
    {"message", "item_id", "q", "needy", "skip", "limit", "description", "owner_id",
     "user_id", "model_name", "file_path", "items", "hidden_query",
     "name", "price", "tax", "price_with_tax", "create_time", "create_user",
     "last_edit_time", "last_edit_user"}

\* C17: once all arguments are bound no handler fails: for every combination
\* of argument values binding produces (negative skip or limit, empty
\* strings, zero or null tax, null description among them) the handler
\* raises nothing and returns a mapping or a sequence.
C17_HandlersNeverFail ==
    Ran =>
       /\ Raises(endpoint, args) = {}
       /\ response.status = 200
       /\ IF endpoint = "read_dic_item"
          THEN Len(response.body) \in 0 .. Len(FakeItemsDb)
          ELSE /\ DOMAIN response.body # {}
               /\ DOMAIN response.body \subseteq ResponseKeys

\* C17 witness: a body handler has run with tax and description null and an
\* empty q, and returned
C17_Witness ==
    /\ Ran
    /\ endpoint = "create_item_request_body_path_query_params"
    /\ args.item.tax = NoneV
    /\ args.item.description = NoneV
    /\ response.status = 200
    /\ response.body.price_with_tax = args.item.price

\* C18: after any sequence of requests to any routes, accepted or rejected,
\* the in-memory mock list fake_items_db still equals its initial value
\* [Foo, Bar, Thirt]: no handler, the POST and PUT body handlers included,
\* adds, removes, reorders or rewrites an entry.
C18_MockListUnchanged ==
    /\ fake_items_db = FakeItemsDb
    /\ fake_items_db = << [item_name |-> StrV("Foo")], [item_name |-> StrV("Bar")],
                          [item_name |-> StrV("Thirt")] >>

\* C18 witness: create_item has run on a valid body and the mock list is as
\* it was
C18_Witness ==
    /\ Ran
    /\ endpoint = "create_item"
    /\ request.method = "POST"
    /\ response.status = 200
    /\ fake_items_db = FakeItemsDb

\* what handler e returns for arguments a on the list as it is initially
AloneResult(e, a, now) ==
    IF e = "read_dic_item" THEN PySlice(FakeItemsDb, a.skip.v, a.skip.v + a.limit.v)
    ELSE Call(e, a, now)

\* the response to request r of application a handled alone, as the first
\* and only request, the clock reading now
AloneResponse(a, r, now) ==
    LET d == Dispatch(Routes(a), r.method, r.path) IN
      IF d.kind = "partial" THEN [status |-> 405, detail |-> "Method Not Allowed"]
      ELSE IF d.kind = "redirect" THEN [status |-> 307, location |-> ToggleSlash(r.path)]
      ELSE IF d.kind = "none" THEN [status |-> 404, detail |-> "Not Found"]
      ELSE LET route == Routes(a)[d.route]
               b == Bind(route, MatchPath(route.template, r.path).params, r.query, r.body)
           IN  IF b.errors # <<>> THEN [status |-> 422, detail |-> b.errors]
               ELSE [status |-> 200, body |-> AloneResult(route.endpoint, b.values, now)]

\* C19: requests are independent: under every interleaving of the requests
\* handled at once, and whatever requests were handled before, the response
\* to each request is, apart from its timestamp, the response the request
\* gets when it is handled alone.
C19_RequestsIndependent ==
    \A c \in Connections :
       pc[c] = "done" =>
          \E now \in Clock : response[c] = AloneResponse(app[c], request[c], now)

\* C19 witness: GET /items/ and POST /items/ have been handled at once, both
\* handlers have run, and GET /items/ has got the three entries
C19_Witness ==
    /\ pc[1] = "done"
    /\ endpoint[1] = "read_dic_item"
    /\ request[1].query = <<>>
    /\ response[1] = [status |-> 200, body |-> FakeItemsDb]
    /\ pc[2] = "done"
    /\ endpoint[2] = "create_item"
    /\ response[2].status = 200

\* the larger of two integers
Max(x, y) == IF x >= y THEN x ELSE y

\* the sequence is a contiguous run of the mock list, in the list's order
ContiguousRun(s) ==
    \E lo \in 1 .. Len(FakeItemsDb) + 1 :
       \E hi \in 0 .. Len(FakeItemsDb) : s = SubSeq(FakeItemsDb, lo, hi)

\* C20 as claimed: for every pair of integers skip and limit that binding
\* accepts, negative ones included, GET /items/ returns a contiguous run of
\* the mock list in original order of no more than max(limit, 0) entries.
C20_PageWithinLimit ==
    (Ran /\ endpoint = "read_dic_item") =>
       /\ ContiguousRun(response.body)
       /\ Len(response.body) <= Max(args.limit.v, 0)

\* C20, the half that holds: the result is always a contiguous run of the
\* mock list in original order, and for limit >= 0 it has no more than limit
\* entries.
C20_ContiguousRun ==
    (Ran /\ endpoint = "read_dic_item") =>
       /\ ContiguousRun(response.body)
       /\ args.limit.v >= 0 => Len(response.body) <= args.limit.v

\* the routers the application of main.py repeats
RouterApps == {"first_steps", "path_params", "query_params", "body"}

\* the (method, path template) pair of a route
Pair(route) == <<route.method, route.template>>

\* the places of a pair in a route table
PlacesIn(routes, pair) == {i \in DOMAIN routes : Pair(routes[i]) = pair}

\* the pairs two route tables share are declared in the same relative order
SameRelativeOrder(rs, ms) ==
    \A i, j \in DOMAIN rs :
       (i < j /\ PlacesIn(ms, Pair(rs[i])) # {} /\ PlacesIn(ms, Pair(rs[j])) # {})
          => \A k \in PlacesIn(ms, Pair(rs[i])) :
                \A l \in PlacesIn(ms, Pair(rs[j])) : k < l

\* route table a declares the pair of the route chosen for the request in
\* hand, and answers the request as it has been answered
AnsweredAlikeBy(a) ==
    /\ PlacesIn(Routes(a), Pair(RoutedRoute)) # {}
    /\ \E now \in Clock : response = AloneResponse(a, request, now)

\* C21 as claimed: the route table of main.py and the route tables of the
\* routers first_steps, path_params, query_params and body are equivalent:
\* every (method, path template) pair a router declares is declared in
\* main.py, in the same relative order, with a handler that returns the same
\* response for every request, and the other way round.
C21_RouteTablesEquivalent ==
    /\ \A a \in RouterApps : SameRelativeOrder(Routes(a), Routes("main"))
    /\ (Matched /\ app \in RouterApps) => AnsweredAlikeBy("main")
    /\ (Matched /\ app = "main") => \E a \in RouterApps : AnsweredAlikeBy(a)

\* the two routes that have no counterpart: PUT
\* /items-request-body-path-params/{item_id} of main.py and PUT
\* /items-request-path-body-params/{item_id} of routes/body.py
Unpaired ==
    {"create_item_request_body_path_params", "create_item_request_path_body_params"}

\* C21, the part that holds: every other route is declared on both sides, in
\* the same relative order, and answers every request alike.
C21_PairedRoutesEquivalent ==
    /\ \A a \in RouterApps : SameRelativeOrder(Routes(a), Routes("main"))
    /\ (Matched /\ app \in RouterApps /\ RoutedRoute.endpoint \notin Unpaired)
          => AnsweredAlikeBy("main")
    /\ (Matched /\ app = "main" /\ RoutedRoute.endpoint \notin Unpaired)
          => \E a \in RouterApps : AnsweredAlikeBy(a)

====
